---- MODULE Spec2Model ----
(***************************************************************************)
(* web-reader: the page-navigation session (src/src/handlers.ts), the     *)
(* plan / execute / recover workflow (src/docs/gitingest.md, /src/main.py) *)
(* and the speech queue (SpeechQueue, src/unnamed/part_011).               *)
(*                                                                         *)
(* Environment assumptions, stated once:                                   *)
(*  - a Browser Driver query (page.$$, page.evaluate) on an open page      *)
(*    succeeds when it is given existing elements; page.evaluate on an     *)
(*    element that does not exist (elements[i] with i out of range) throws;*)
(*  - page.goto either resolves (also on an HTTP 4xx/5xx answer, see       *)
(*    src/src/__tests__/setup.ts:114-117) or rejects (DNS, timeout);       *)
(*  - speak() resolves;                                                    *)
(*  - the MCP Server calls the request handler for each request when the   *)
(*    request arrives: it does not wait for the handler of an earlier      *)
(*    request to settle.                                                   *)
(***************************************************************************)
EXTENDS Integers, Sequences, FiniteSets, TLC

VARIABLES state, dom, pre, resp,          \* the navigation session
          node, st, page, cls, event, turn, \* the workflow
          speech,                           \* the speech queue
          requests                          \* the tool calls in progress

navVars == <<state, dom, pre, resp>>
flowVars == <<node, st, page, cls, event, turn>>
vars == <<navVars, flowVars, speech, requests>>

\* ---------------------------------------------------------------- bounds
\* the most focusable elements, and the most headings, a page has
MaxElements == 2
MaxHeadings == 2
\* the most node executions of one turn of the workflow
MaxSteps == 12

\* ------------------------------------------------------------- constants
\* headingLevel?: number -- an absent level; JS `level || x` treats it as 0
Undefined == 0
NULL == "null"
OPEN == "open"

URLs == {"https://a.example"}
GotoOutcomes == {"ok", "http_error", "rejected"}
Directions == {"up", "down"}
\* the heading levels pages use (h1 and h3: a page may skip a level)
Levels == {1, 3}
LandmarkCounts == {0, 1}

\* The page as the handlers' queries see it: the number of focusable
\* elements, the heading levels in document order, the number of landmarks.
RECURSIVE SeqsUpTo(_, _)
SeqsUpTo(S, n) ==
  IF n = 0 THEN {<<>>}
  ELSE LET shorter == SeqsUpTo(S, n - 1)
       IN shorter \cup {Append(q, x) : q \in {p \in shorter : Len(p) = n - 1}, x \in S}

Doms == [all : 0..MaxElements, headings : SeqsUpTo(Levels, MaxHeadings),
         landmarks : LandmarkCounts]

BlankDom == [all |-> 0, headings |-> <<>>, landmarks |-> 0]

\* what a server answers with an HTTP error status: a heading and a link
ErrorPage == [all |-> 1, headings |-> <<1>>, landmarks |-> 0]

\* ------------------------------------------------------------- responses
\* code: the ErrorCode of an McpError; "" for an answer, and for an Error a
\* handler throws
NoResp == [op |-> "none", threw |-> FALSE, msg |-> "", described |-> -1,
           total |-> -1, arg |-> "", code |-> ""]

Threw(op, text) == [op |-> op, threw |-> TRUE, msg |-> text, described |-> -1,
                    total |-> -1, arg |-> "", code |-> ""]

Message(op, text) == [op |-> op, threw |-> FALSE, msg |-> text, described |-> -1,
                      total |-> -1, arg |-> "", code |-> ""]

\* a description of element i of a list of n elements
Described(op, i, n) == [op |-> op, threw |-> FALSE, msg |-> "", described |-> i,
                        total |-> n, arg |-> "", code |-> ""]

\* new McpError(code, text), thrown by the request handler
McpError(op, code, text) == [Threw(op, text) EXCEPT !.code = code]

\* the catch block of the request handler as it would be if it threw again
\* whatever it caught
catch_rethrows(r) == r

\* the catch block of the request handler: an McpError is thrown again, any
\* other error is wrapped
catch(r) ==
  IF r.threw /\ r.code = "" THEN [r EXCEPT !.code = "InternalError"] ELSE r

\* ----------------------------------------------------- element populations
\* getFocusableElements(type): the length of the list the selector returns
getFocusableElements(d, type) ==
  CASE type = "landmarks" -> d.landmarks
    [] type = "headings" -> Len(d.headings)
    [] OTHER -> d.all

\* headings.filter(h => h.level === level), as the positions kept
relevantHeadings(d, level) ==
  IF level # Undefined
  THEN SelectSeq(d.headings, LAMBDA l : l = level)
  ELSE d.headings

\* Array.from(new Set(levels)).sort()
RECURSIVE SortSet(_)
SortSet(S) ==
  IF S = {} THEN <<>>
  ELSE LET m == CHOOSE x \in S : \A y \in S : x <= y
       IN <<m>> \o SortSet(S \ {m})

uniqueLevels(d) == SortSet({d.headings[i] : i \in 1..Len(d.headings)})

\* Array.prototype.indexOf, 0-based, -1 when absent
indexOf(q, x) ==
  IF \E i \in 1..Len(q) : q[i] = x
  THEN (CHOOSE i \in 1..Len(q) : q[i] = x /\ \A j \in 1..(i - 1) : q[j] # x) - 1
  ELSE -1

\* ---------------------------------------------------------------- handlers
\* Each handler maps the session state and the page to the new session
\* state and the response: [s |-> NavigationState, r |-> response].

handleNavigateTo(s, d, url, outcome) ==
  IF s.page = NULL THEN [s |-> s, r |-> Threw("navigate_to", "No page available")]
  ELSE IF outcome = "rejected"
  THEN [s |-> s, r |-> [Threw("navigate_to", "Failed to load page") EXCEPT !.arg = outcome]]
  ELSE [s |-> [s EXCEPT !.currentUrl = url],
        r |-> [Described("navigate_to", -1, d.all) EXCEPT !.arg = outcome]]

\* handleReadCurrent as it would be without the test of state.page
handleReadCurrent_unguarded(s, d) ==
  IF d.all = 0
  THEN [s |-> s, r |-> Message("read_current", "No interactive elements found")]
  ELSE IF s.currentIndex >= d.all
  THEN [s |-> s, r |-> [Threw("read_current", "Error reading element")
                          EXCEPT !.described = s.currentIndex, !.total = d.all]]
  ELSE [s |-> s, r |-> Described("read_current", s.currentIndex, d.all)]

handleReadCurrent(s, d) ==
  IF s.page = NULL THEN [s |-> s, r |-> Threw("read_current", "No page is currently open")]
  ELSE IF d.all = 0
  THEN [s |-> s, r |-> Message("read_current", "No interactive elements found")]
  ELSE IF s.currentIndex >= d.all
  THEN [s |-> s, r |-> [Threw("read_current", "Error reading element")
                          EXCEPT !.described = s.currentIndex, !.total = d.all]]
  ELSE [s |-> s, r |-> Described("read_current", s.currentIndex, d.all)]

handleNextElement_wraps(s, d) ==
  IF s.page = NULL THEN [s |-> s, r |-> Threw("next_element", "No page is currently open")]
  ELSE IF d.all = 0
  THEN [s |-> s, r |-> Message("next_element", "No interactive elements found")]
  ELSE LET i == (s.currentIndex + 1) % d.all
       IN [s |-> [s EXCEPT !.currentIndex = i], r |-> Described("next_element", i, d.all)]

handleNextElement(s, d) ==
  IF s.page = NULL THEN [s |-> s, r |-> Threw("next_element", "No page is currently open")]
  ELSE IF d.all = 0
  THEN [s |-> s, r |-> Message("next_element", "No interactive elements found")]
  ELSE LET i == s.currentIndex + 1
       IN IF i >= d.all
          THEN [s |-> [s EXCEPT !.currentIndex = d.all - 1],
                r |-> Message("next_element", "Reached end of page")]
          ELSE [s |-> [s EXCEPT !.currentIndex = i],
                r |-> Described("next_element", i, d.all)]

handlePreviousElement_wraps(s, d) ==
  IF s.page = NULL THEN [s |-> s, r |-> Threw("previous_element", "No page is currently open")]
  ELSE IF d.all = 0
  THEN [s |-> s, r |-> Message("previous_element", "No interactive elements found")]
  ELSE LET i == (s.currentIndex - 1 + d.all) % d.all
       IN [s |-> [s EXCEPT !.currentIndex = i], r |-> Described("previous_element", i, d.all)]

handlePreviousElement(s, d) ==
  IF s.page = NULL THEN [s |-> s, r |-> Threw("previous_element", "No page is currently open")]
  ELSE IF d.all = 0
  THEN [s |-> s, r |-> Message("previous_element", "No interactive elements found")]
  ELSE LET i == IF s.currentIndex - 1 > 0 THEN s.currentIndex - 1 ELSE 0
           s2 == [s EXCEPT !.currentIndex = i]
       IN IF i = 0
          THEN [s |-> s2, r |-> Message("previous_element", "At start of page")]
          ELSE IF i >= d.all
          THEN [s |-> s2, r |-> [Threw("previous_element", "Error moving to previous element")
                                   EXCEPT !.described = i, !.total = d.all]]
          ELSE [s |-> s2, r |-> Described("previous_element", i, d.all)]

\* the result lists the headings: headingCount is their number
handleListHeadings(s, d) ==
  IF s.page = NULL THEN [s |-> s, r |-> Threw("list_headings", "No page is currently open")]
  ELSE IF Len(d.headings) = 0
  THEN [s |-> s, r |-> Message("list_headings", "No headings found on page")]
  ELSE [s |-> s, r |-> Described("list_headings", -1, Len(d.headings))]

\* matches: the number of text nodes of the page that contain the text; the
\* description names matches[0]
handleFindText(s, d, matches) ==
  IF s.page = NULL THEN [s |-> s, r |-> Threw("find_text", "No page is currently open")]
  ELSE IF matches = 0
  THEN [s |-> s, r |-> Message("find_text", "Text not found on page")]
  ELSE [s |-> s, r |-> Described("find_text", 0, matches)]

handleNavigateLandmarks(s, d) ==
  IF s.page = NULL THEN [s |-> s, r |-> Threw("navigate_landmarks", "No page is currently open")]
  ELSE LET s1 == [s EXCEPT !.navigationType = "landmarks"]
           n == getFocusableElements(d, "landmarks")
       IN IF n = 0
          THEN [s |-> s1, r |-> Message("navigate_landmarks", "No landmarks found on page")]
          ELSE [s |-> [s1 EXCEPT !.currentIndex = 0],
                r |-> Described("navigate_landmarks", 0, n)]

\* handleNavigateHeadings as it would be if it left the cursor where it was
handleNavigateHeadings_keeps_cursor(s, d, level) ==
  IF s.page = NULL THEN [s |-> s, r |-> Threw("navigate_headings", "No page is currently open")]
  ELSE LET s1 == [s EXCEPT !.navigationType = "headings"]
           rel == relevantHeadings(d, level)
       IN IF getFocusableElements(d, "headings") = 0
          THEN [s |-> s1, r |-> Message("navigate_headings", "No headings found on page")]
          ELSE IF Len(rel) = 0
          THEN [s |-> s1, r |-> Message("navigate_headings", "No level headings found")]
          ELSE [s |-> [s1 EXCEPT !.headingLevel = IF level # Undefined THEN level ELSE rel[1]],
                r |-> Described("navigate_headings", s.currentIndex, Len(rel))]

handleNavigateHeadings(s, d, level) ==
  IF s.page = NULL THEN [s |-> s, r |-> Threw("navigate_headings", "No page is currently open")]
  ELSE LET s1 == [s EXCEPT !.navigationType = "headings"]
           rel == relevantHeadings(d, level)
       IN IF getFocusableElements(d, "headings") = 0
          THEN [s |-> s1, r |-> Message("navigate_headings", "No headings found on page")]
          ELSE IF Len(rel) = 0
          THEN [s |-> s1, r |-> Message("navigate_headings", "No level headings found")]
          ELSE [s |-> [s1 EXCEPT !.currentIndex = 0,
                                 !.headingLevel = IF level # Undefined THEN level ELSE rel[1]],
                r |-> Described("navigate_headings", 0, Len(rel))]

handleChangeHeadingLevel(s, d, direction) ==
  IF s.page = NULL \/ s.navigationType # "headings"
  THEN [s |-> s, r |-> Threw("change_heading_level", "Not in heading navigation mode")]
  ELSE LET ul == uniqueLevels(d)
           currentLevel == IF s.headingLevel # Undefined THEN s.headingLevel
                           ELSE IF Len(ul) > 0 THEN ul[1] ELSE Undefined
           currentIndex == indexOf(ul, currentLevel)
           newLevel == IF direction = "up"
                       THEN (IF currentIndex > 0 THEN ul[currentIndex] ELSE currentLevel)
                       ELSE (IF currentIndex < Len(ul) - 1 THEN ul[currentIndex + 2]
                             ELSE currentLevel)
       IN IF newLevel = currentLevel
          THEN [s |-> s,
                r |-> Message("change_heading_level",
                              IF direction = "up" THEN "Already at highest heading level"
                              ELSE "Already at lowest heading level")]
          ELSE LET nh == handleNavigateHeadings(s, d, newLevel)
               IN [s |-> nh.s, r |-> [nh.r EXCEPT !.op = "change_heading_level"]]

cleanup(s) ==
  IF s.browser # NULL
  THEN [s EXCEPT !.browser = NULL, !.page = NULL, !.currentUrl = NULL,
                 !.currentIndex = 0, !.navigationType = "all",
                 !.headingLevel = Undefined]
  ELSE s


\* ================================================================ workflow
\* The LangGraph workflow of /src/main.py.  A node's returned dictionary is
\* merged into the State, assignments a node makes to the State stay, and a
\* conditional edge reads the merged State: the semantics the code is
\* written against.  The language model's replies are inputs.

NONE == "None"
END == "__end__"

\* config.VALID_ACTIONS: the action vocabulary and the handler each names
VALID_ACTIONS ==
  [a \in {"navigate", "read", "click", "check", "list_headings", "list_headlines",
          "goto_headline", "find", "next", "prev", "list_landmarks", "goto",
          "read_section"} |->
     CASE a = "read" -> "read_page"
       [] a = "click" -> "click_element"
       [] a = "check" -> "check_element"
       [] a = "find" -> "find_text"
       [] a = "next" -> "next_element"
       [] a = "prev" -> "prev_element"
       [] a = "goto" -> "goto_landmark"
       [] OTHER -> a]

\* the thresholds of determine_action, in hundredths
ThresholdWithPageType == 60
ThresholdWithoutPageType == 70

InvalidActionMsg == "I'm not sure what action you want to take. Could you rephrase your request?"
LowConfidenceMsg == "I'm not sure about that action. Could you be more specific?"
ProcessFailedMsg == "Failed to process command"

\* what the language model may answer to the action prompt: a vocabulary
\* action whose handler is found, one whose handler lookup fails, a word
\* outside the vocabulary, no action; or text that is not JSON
LLMActions == {"list_headings", "read", "dance", ""}
Confidences == {50, 65, 90}
\* the reply to a compound command ("go to nytimes.com and list headlines")
CompoundCommand ==
  [action |-> "navigate", confidence |-> 90, next_action |-> "list_headlines",
   parsed |-> TRUE]
Classifications ==
  [action : LLMActions, confidence : Confidences, next_action : {NONE},
   parsed : {TRUE}]
    \cup {CompoundCommand}
    \cup {[action |-> "", confidence |-> 0, next_action |-> NONE, parsed |-> FALSE]}
NoClassification ==
  [action |-> NONE, confidence |-> 0, next_action |-> NONE, parsed |-> FALSE]

\* PageContext, the fields the workflow reads
PageContext(type, has_main, has_article, has_headlines, dynamic_content) ==
  [type |-> type, has_main |-> has_main, has_article |-> has_article,
   has_headlines |-> has_headlines, dynamic_content |-> dynamic_content]

\* what BeautifulSoup finds on the driver's page
Pages == [has_main : BOOLEAN, has_article : BOOLEAN, has_headlines : BOOLEAN]

create_task(task_id, task_type, dependencies, can_parallel) ==
  [id |-> task_id, type |-> task_type, dependencies |-> dependencies,
   can_parallel |-> can_parallel]

\* the user's utterance, and the sub-tasks a decomposition may name
UserInput == "utterance"
SubTaskLists == {<<>>, <<"t1">>, <<"t1", "t2">>}

create_initial_state ==
  [messages |-> <<UserInput>>,
   page_context |-> PageContext("unknown", FALSE, FALSE, FALSE, FALSE),
   current_action |-> NONE,
   action_context |-> "",
   attempts |-> 0,
   tasks |-> <<>>,
   task_status |-> {},
   parallel_groups |-> <<>>,
   execution_plan |-> <<>>,
   execution_history |-> <<>>,
   error |-> NONE,
   strategy |-> NONE,
   sub_tasks |-> <<>>,
   next |-> NONE]

\* has_page_type = bool(page_context.type): any non-empty type string,
\* the placeholder "unknown" included
has_page_type(pc) == pc.type # ""

\* determine_action as it would be without the confidence check
determine_action_unchecked(s, c) ==
  IF ~c.parsed
  THEN [error |-> ProcessFailedMsg, current_action |-> NONE, next_action |-> NONE,
        next |-> "error_recovery"]
  ELSE IF c.action = "" \/ c.action \notin DOMAIN VALID_ACTIONS
  THEN [error |-> InvalidActionMsg, current_action |-> NONE, next_action |-> NONE,
        next |-> "error_recovery"]
  ELSE [error |-> NONE, current_action |-> c.action, next_action |-> c.next_action,
        next |-> VALID_ACTIONS[c.action]]

\* determine_action as it would be if an action outside the vocabulary
\* were replaced by a default one instead of being refused
determine_action_defaults(s, c) ==
  IF ~c.parsed
  THEN [error |-> ProcessFailedMsg, current_action |-> NONE, next_action |-> NONE,
        next |-> "error_recovery"]
  ELSE LET action == IF c.action \in DOMAIN VALID_ACTIONS THEN c.action ELSE "read"
       IN IF c.confidence < (IF has_page_type(s.page_context) THEN ThresholdWithPageType
                             ELSE ThresholdWithoutPageType)
          THEN [error |-> LowConfidenceMsg, current_action |-> NONE,
                next_action |-> NONE, next |-> "error_recovery"]
          ELSE [error |-> NONE, current_action |-> action,
                next_action |-> c.next_action, next |-> VALID_ACTIONS[action]]

\* determine_action: the classification c is the parsed reply of the model
determine_action(s, c) ==
  IF ~c.parsed
  THEN [error |-> ProcessFailedMsg, current_action |-> NONE, next_action |-> NONE,
        next |-> "error_recovery"]
  ELSE IF c.action = "" \/ c.action \notin DOMAIN VALID_ACTIONS
  THEN [error |-> InvalidActionMsg, current_action |-> NONE, next_action |-> NONE,
        next |-> "error_recovery"]
  ELSE LET threshold == IF has_page_type(s.page_context) THEN ThresholdWithPageType
                        ELSE ThresholdWithoutPageType
       IN IF c.confidence < threshold
          THEN [error |-> LowConfidenceMsg, current_action |-> NONE,
                next_action |-> NONE, next |-> "error_recovery"]
          ELSE [error |-> NONE, current_action |-> c.action,
                next_action |-> c.next_action, next |-> VALID_ACTIONS[c.action]]

build_task_graph(s, action_result) ==
  LET action == action_result.current_action
      pc == s.page_context
      main_task == create_task(action, VALID_ACTIONS[action], <<>>, FALSE)
  IN <<main_task>>
     \o (IF pc.has_article \/ pc.has_headlines
         THEN <<create_task("analyze_content", "reading", <<>>, TRUE)>> ELSE <<>>)
     \o (IF pc.has_main
         THEN <<create_task("analyze_structure", "reading", <<>>, TRUE)>> ELSE <<>>)
     \o (IF pc.dynamic_content
         THEN <<create_task("handle_dynamic", "interaction", <<action>>, FALSE)>>
         ELSE <<>>)

Range(q) == {q[i] : i \in 1..Len(q)}

\* the inner loop of find_parallel_tasks: the group the task at position i
\* starts, every unvisited parallel task (itself included) appended in order
RECURSIVE GroupFrom(_, _, _, _, _)
GroupFrom(tg, i, j, visited, group) ==
  IF j > Len(tg) THEN group
  ELSE IF tg[j].id \in visited \/ ~tg[j].can_parallel
  THEN GroupFrom(tg, i, j + 1, visited, group)
  ELSE IF Range(tg[i].dependencies) \cap Range(tg[j].dependencies) = {}
  THEN GroupFrom(tg, i, j + 1, visited, Append(group, tg[j].id))
  ELSE GroupFrom(tg, i, j + 1, visited, group)

RECURSIVE FindGroups(_, _, _, _)
FindGroups(tg, i, visited, groups) ==
  IF i > Len(tg) THEN groups
  ELSE IF tg[i].id \in visited \/ ~tg[i].can_parallel
  THEN FindGroups(tg, i + 1, visited, groups)
  ELSE LET parallel_group == GroupFrom(tg, i, 1, visited, <<tg[i].id>>)
       IN IF Len(parallel_group) > 1
          THEN FindGroups(tg, i + 1, visited \cup Range(parallel_group),
                          Append(groups, parallel_group))
          ELSE FindGroups(tg, i + 1, visited, groups)

find_parallel_tasks(task_graph) == FindGroups(task_graph, 1, {}, <<>>)

\* one plan entry: a parallel group (a list of ids) or a single task id
Group(ids) == [par |-> TRUE, ids |-> ids]
Single(id) == [par |-> FALSE, ids |-> <<id>>]

\* the ready tasks as they would be if the dependencies were not looked at
ReadyTasks_ignores_dependencies(tg, executed) ==
  LET ready == SelectSeq(tg, LAMBDA task : task.id \notin executed)
  IN [i \in 1..Len(ready) |-> ready[i].id]

\* the ids of the tasks not yet executed whose dependencies all are
ReadyTasks(tg, executed) ==
  LET ready == SelectSeq(tg, LAMBDA task :
                 task.id \notin executed /\ Range(task.dependencies) \subseteq executed)
  IN [i \in 1..Len(ready) |-> ready[i].id]

\* for group in parallel_groups: a group whose tasks are all ready is planned
RECURSIVE PlanGroups(_, _, _)
PlanGroups(groups, k, acc) ==
  IF k > Len(groups) THEN acc
  ELSE IF Range(groups[k]) \subseteq Range(acc.ready)
  THEN PlanGroups(groups, k + 1,
         [plan |-> Append(acc.plan, Group(groups[k])),
          executed |-> acc.executed \cup Range(groups[k]),
          ready |-> SelectSeq(acc.ready, LAMBDA x : x \notin Range(groups[k]))])
  ELSE PlanGroups(groups, k + 1, acc)

\* while len(executed) < len(task_graph): [plan, loops].  An iteration that
\* finds no task ready changes neither executed nor plan, so that the loop
\* condition stays true and the same iteration repeats for ever: loops.
RECURSIVE PlanLoop(_, _, _, _)
PlanLoop(tg, groups, executed, plan) ==
  IF Cardinality(executed) >= Len(tg) THEN [plan |-> plan, loops |-> FALSE]
  ELSE LET ready == ReadyTasks(tg, executed)
           g == PlanGroups(groups, 1, [plan |-> plan, executed |-> executed,
                                       ready |-> ready])
           rest == [i \in 1..Len(g.ready) |-> Single(g.ready[i])]
       IN IF ready = <<>> THEN [plan |-> plan, loops |-> TRUE]
          ELSE PlanLoop(tg, groups, g.executed \cup Range(g.ready), g.plan \o rest)

create_execution_plan(task_graph, parallel_groups) ==
  PlanLoop(task_graph, parallel_groups, {}, <<>>)

\* plan_task_execution from the task graph on: the groups, the plan, and
\* the assignments to the State; [s, loops: create_execution_plan does not
\* return]
schedule_tasks(s, task_graph) ==
  LET parallel_groups == find_parallel_tasks(task_graph)
      execution_plan == create_execution_plan(task_graph, parallel_groups)
  IN IF execution_plan.loops THEN [s |-> s, loops |-> TRUE]
     ELSE [s |-> [s EXCEPT !.tasks = task_graph,
                           !.parallel_groups = parallel_groups,
                           !.execution_plan = execution_plan.plan,
                           !.next = IF parallel_groups # <<>> THEN "execute_parallel"
                                    ELSE "execute"],
           loops |-> FALSE]

\* plan_task_execution: [s |-> State, built |-> a task graph was built]
plan_task_execution(s, c) ==
  LET action_result == determine_action(s, c)
  IN IF action_result.error # NONE
     THEN [s |-> [s EXCEPT !.error = action_result.error, !.next = "error_recovery"],
           built |-> FALSE]
     ELSE [s |-> schedule_tasks(s, build_task_graph(s, action_result)).s,
           built |-> TRUE]

\* analyze_context: the page context read from the driver's page, or the
\* error of a driver that fails
analyze_context(s, pg, ok) ==
  IF ok
  THEN [s EXCEPT !.page_context =
          PageContext("unknown", pg.has_main, pg.has_article, pg.has_headlines, FALSE)]
  ELSE [s EXCEPT !.error = "analyze_context failed"]

prepare_action(s) == [s EXCEPT !.next = "execute"]

\* actions.register_action: the names that have a handler
RegisteredActions ==
  {"next_element", "prev_element", "check_element", "navigate", "click_element",
   "read_page", "list_headings", "list_headlines", "read_section", "goto_headline",
   "goto_landmark", "list_landmarks"}

\* actions.get_action(VALID_ACTIONS[task.type]) finds a handler
HandlerFound(type) ==
  type \in DOMAIN VALID_ACTIONS /\ VALID_ACTIONS[type] \in RegisteredActions

\* a handler returns messages for the user, or create_result(error=...)
HandlerOutcomes == {"messages", "error"}

\* actions/reading.py list_headings on the driver's page d: the kind of the
\* ActionResult and its text
list_headings(d) ==
  IF Len(d.headings) > 0
  THEN [kind |-> "messages", text |-> "Found these headings"]
  ELSE [kind |-> "error", text |-> "No headings found on this page"]

\* actions/landmarks.py list_landmarks: create_error_response() makes a
\* message for the user, not an error
list_landmarks(d) ==
  IF d.landmarks > 0
  THEN [kind |-> "messages", text |-> "Found these landmarks and sections"]
  ELSE [kind |-> "messages",
        text |-> "No landmarks or major sections found on this page."]

TaskOf(s, id) == CHOOSE task \in Range(s.tasks) : task.id = id

\* action_func(state) for the task id: navigate answers with an error when
\* the State holds no action_context to take the URL from; otherwise the
\* handler's outcome h
HandlerResult(s, id, h) ==
  IF VALID_ACTIONS[TaskOf(s, id).type] = "navigate" /\ s.action_context = ""
  THEN "error" ELSE h

SetStatus(task_status, ids, failed_ids) ==
  {p \in task_status : p[1] \notin ids}
    \cup {<<id, IF id \in failed_ids THEN "failed" ELSE "completed">> : id \in ids}

\* execute_parallel_tasks: [s, printed: assistant messages the caller
\* prints, ran: handlers called, raised: a task ended in an exception,
\* failed: a task raised or its handler returned an error]
execute_parallel_tasks(s, h) ==
  IF s.execution_plan = <<>>
  THEN [s |-> [s EXCEPT !.next = END], printed |-> 0, ran |-> 0, raised |-> FALSE,
        failed |-> FALSE]
  ELSE LET next_tasks == Head(s.execution_plan)
           ids == Range(next_tasks.ids)
           found == {id \in ids : HandlerFound(TaskOf(s, id).type)}
           calls == Len(SelectSeq(next_tasks.ids, LAMBDA id : id \in found))
           rest == Tail(s.execution_plan)
           after == IF rest # <<>> THEN "execute_parallel" ELSE END
       IN IF next_tasks.par
          THEN LET errors == (ids \ found)
                               \cup {id \in found : HandlerResult(s, id, h) = "error"}
                   s1 == [s EXCEPT !.task_status = SetStatus(@, ids, ids \ found),
                                   !.execution_plan = rest]
               IN IF errors # {}
                  THEN [s |-> [s1 EXCEPT !.error = "Some parallel tasks failed",
                                         !.next = "error_recovery"],
                        printed |-> 0, ran |-> calls,
                        raised |-> ids # found, failed |-> TRUE]
                  ELSE [s |-> [s1 EXCEPT !.next = after],
                        printed |-> 0, ran |-> calls,
                        raised |-> FALSE, failed |-> FALSE]
          ELSE IF found = {}
          THEN [s |-> [s EXCEPT !.task_status = SetStatus(@, ids, ids),
                                !.error = "Failed to execute",
                                !.next = "error_recovery"],
                printed |-> 0, ran |-> 0, raised |-> TRUE, failed |-> TRUE]
          ELSE [s |-> [s EXCEPT !.task_status = SetStatus(@, ids, {}),
                                !.execution_plan = rest,
                                !.next = after],
                printed |-> IF HandlerResult(s, Head(next_tasks.ids), h) = "messages"
                            THEN 1 ELSE 0,
                ran |-> 1, raised |-> FALSE,
                failed |-> HandlerResult(s, Head(next_tasks.ids), h) = "error"]

\* the handlers execute_parallel_tasks calls for the head of the plan
Called(s) ==
  IF s.execution_plan = <<>> THEN {}
  ELSE {VALID_ACTIONS[TaskOf(s, id).type] :
          id \in {i \in Range(Head(s.execution_plan).ids) :
                    HandlerFound(TaskOf(s, i).type)}}

\* what the language model may answer to the recovery prompt
Strategies == {"retry", "alternative", "clarify", "decompose", "abort"}
StrategyConfidences == {70, 90}
\* the action an "alternative" answer suggests, and the context it needs
SuggestedAction == "list_headings"
NeededContext == "nytimes.com"
Recoveries ==
  [strategy : Strategies, suggested_action : {SuggestedAction},
   confidence : StrategyConfidences, sub_tasks : {<<"t1", "t2">>}, parsed : {TRUE}]
    \cup {[strategy |-> NONE, suggested_action |-> NONE, confidence |-> 0,
           sub_tasks |-> <<>>, parsed |-> FALSE]}

\* handle_error_with_llm: [s, said: the kind of the one message returned]
handle_error_with_llm(s, recovery) ==
  IF ~recovery.parsed
  THEN [s |-> [s EXCEPT !.next = END], said |-> "recovery_failed"]
  ELSE IF recovery.strategy = "clarify"
  THEN [s |-> [s EXCEPT !.strategy = "clarify", !.next = END], said |-> "clarification"]
  ELSE LET s1 == [s EXCEPT !.strategy = recovery.strategy, !.error = NONE,
                           !.next = IF recovery.strategy = "decompose" THEN "plan"
                                    ELSE "execute"]
       IN [s |-> CASE recovery.strategy = "decompose" ->
                        [s1 EXCEPT !.sub_tasks = recovery.sub_tasks, !.attempts = 0]
                   [] recovery.strategy = "alternative" ->
                        [s1 EXCEPT !.current_action = recovery.suggested_action,
                                   !.action_context = NeededContext,
                                   !.attempts = 0]
                   [] OTHER -> s1,
           said |-> "explanation"]

\* what the language model may answer to the reflection prompt
Reflections ==
  [strategy : Strategies, suggested_action : {SuggestedAction},
   confidence : StrategyConfidences, sub_tasks : SubTaskLists, parsed : {TRUE}]
    \cup {[strategy |-> NONE, suggested_action |-> NONE, confidence |-> 0,
           sub_tasks |-> <<>>, parsed |-> FALSE]}

\* the confidence an alternative must exceed, in hundredths
AlternativeThreshold == 70

\* reflect_on_execution: [s, printed, said, chose: the strategy acted on,
\* raised: json.loads failed, which nothing in the node catches]
reflect_on_execution(s, reflection) ==
  IF s.execution_history = <<>>
  THEN [s |-> [s EXCEPT !.next = END], printed |-> 0, said |-> NONE,
        chose |-> NONE, raised |-> FALSE]
  ELSE IF ~reflection.parsed
  THEN [s |-> s, printed |-> 0, said |-> NONE, chose |-> NONE, raised |-> TRUE]
  ELSE IF reflection.strategy = "retry"
  THEN [s |-> [s EXCEPT !.attempts = s.attempts, !.next = "prepare"],
        printed |-> 0, said |-> NONE, chose |-> "retry", raised |-> FALSE]
  ELSE IF reflection.strategy = "alternative"
          /\ reflection.confidence > AlternativeThreshold
  THEN [s |-> [s EXCEPT !.current_action = reflection.suggested_action,
                        !.attempts = 0, !.next = "prepare"],
        printed |-> 0, said |-> NONE, chose |-> "alternative", raised |-> FALSE]
  ELSE IF reflection.strategy = "decompose" /\ reflection.sub_tasks # <<>>
  THEN [s |-> [s EXCEPT !.sub_tasks = Tail(reflection.sub_tasks),
                        !.messages = Append(@, Head(reflection.sub_tasks)),
                        !.attempts = 0, !.next = "analyze"],
        printed |-> 0, said |-> NONE, chose |-> "decompose", raised |-> FALSE]
  ELSE [s |-> [s EXCEPT !.next = END], printed |-> 1, said |-> "rephrase",
        chose |-> reflection.strategy, raised |-> FALSE]

\* --------------------------------------------------------- build_workflow
route_prepare(s) ==
  IF s.next = "error_recovery" THEN "error_recovery" ELSE "execute_parallel"

route_execute_parallel(s) ==
  IF s.error # NONE THEN "error_recovery"
  ELSE IF s.attempts > 1 THEN "reflect"
  ELSE IF s.next = "execute_parallel" THEN "execute_parallel"
  ELSE END

route_reflect(s) ==
  IF s.next \in {"analyze", "plan", "prepare"} THEN s.next ELSE END

route_error_recovery(s) ==
  IF s.strategy \in {"decompose", "clarify"} THEN "analyze"
  ELSE IF s.strategy \in {"retry", "alternative"} THEN "prepare"
  ELSE END

\* what one node execution did
Event(n, s, built, ran, raised, failed) ==
  [node |-> n, attempts |-> s.attempts, built |-> built, ran |-> ran,
   raised |-> raised, failed |-> failed,
   \* the node found no plan entry to execute; the classification was
   \* refused for its confidence; the strategy the model chose, how
   \* confident it was and how many sub-tasks it named
   empty |-> s.execution_plan = <<>>, low |-> FALSE,
   strategy |-> NONE, confidence |-> 0, sub_tasks |-> 0,
   \* the tasks of the parallel group at the head of the plan
   group |-> IF s.execution_plan # <<>> /\ Head(s.execution_plan).par
             THEN Range(Head(s.execution_plan).ids) ELSE {},
   \* the handlers the node called
   called |-> {}]

NoEvent == Event(NONE, create_initial_state, FALSE, 0, FALSE, FALSE)

\* process_user_input prints the assistant messages of each event
NewTurn ==
  [responses |-> 0, last |-> NONE, rejected |-> FALSE, handlers |-> 0,
   handlersAfterReject |-> 0, failures |-> 0, invoked |-> {}, succeeded |-> {},
   steps |-> 0,
   \* the State with which error_recovery was last entered in this turn, and
   \* whether it has been entered again with the very same State
   recovering |-> create_initial_state, again |-> FALSE]

\* the consecutive failed or low-confidence attempts of the turn after the
\* event ev, n being their number before it: a failed execution or a
\* low-confidence classification adds one; a plan entry that executed
\* without failure, or a change of strategy, starts the count again
Failures(n, ev) ==
  CASE ev.node = "execute_parallel" /\ ev.failed -> n + 1
    [] ev.node = "execute_parallel" /\ ~ev.failed /\ ~ev.empty -> 0
    [] ev.node = "plan" /\ ev.low -> n + 1
    [] ev.node \in {"error_recovery", "reflect"}
         /\ ev.strategy \in {"alternative", "decompose"} -> 0
    [] OTHER -> n

\* ============================================================ speech queue
\* SpeechQueue: the utterances that wait, whether one is being spoken, the
\* utterance say.speak() is playing and whether say.stop() has ended that
\* playback.  say.stop() ends the playback at once; the callback of
\* say.speak() comes later, as a step of its own.

\* the most utterances a run enqueues
MaxUtterances == 4
\* options.priority; left out, it is handled as "normal"
Priorities == {"high", "normal", "low"}

NoItem == [id |-> 0, priority |-> "normal", interrupt |-> FALSE]
NoSpeechOp ==
  [op |-> NONE, item |-> NoItem,
   before |-> [queue |-> <<>>, speaking |-> FALSE, playing |-> NoItem,
               stopped |-> FALSE]]

NewSpeechQueue ==
  [queue |-> <<>>, speaking |-> FALSE, playing |-> NoItem, stopped |-> FALSE,
   next_id |-> 1, last |-> NoSpeechOp,
   \* the utterances that played or waited when a stop signal came
   cancelled |-> {},
   \* the utterances whose promise has been resolved or rejected
   settled |-> {}]

\* say.stop(), then currentSpeech = null
stop(q) == [q EXCEPT !.stopped = q.speaking]

\* queue.map(i => i.options.priority === 'high').lastIndexOf(true), 1-based,
\* 0 when there is none
lastHighPriority(queue) ==
  IF \E i \in 1..Len(queue) : queue[i].priority = "high"
  THEN CHOOSE i \in 1..Len(queue) :
         /\ queue[i].priority = "high"
         /\ \A j \in (i + 1)..Len(queue) : queue[j].priority # "high"
  ELSE 0

\* enqueue as it would be if a low-priority utterance were put at the
\* front as a high-priority one is
enqueue_low_first(queue, item) ==
  IF item.priority \in {"high", "low"} THEN <<item>> \o queue
  ELSE LET k == lastHighPriority(queue)
       IN IF k > 0
          THEN SubSeq(queue, 1, k) \o <<item>> \o SubSeq(queue, k + 1, Len(queue))
          ELSE <<item>> \o queue

\* unshift, push, or splice after the last high-priority item
enqueue(queue, item) ==
  CASE item.priority = "high" -> <<item>> \o queue
    [] item.priority = "low" -> Append(queue, item)
    [] OTHER ->
         LET k == lastHighPriority(queue)
         IN IF k > 0
            THEN SubSeq(queue, 1, k) \o <<item>> \o SubSeq(queue, k + 1, Len(queue))
            ELSE <<item>> \o queue

\* processQueue, up to the await of say.speak()
processQueue(q) ==
  IF q.speaking \/ q.queue = <<>> THEN q
  ELSE [q EXCEPT !.speaking = TRUE, !.playing = Head(q.queue),
                 !.queue = Tail(q.queue), !.stopped = FALSE]

\* speak as it would be if a high-priority utterance were put at the end
speak_appends(q, item) ==
  LET q1 == IF item.interrupt /\ q.speaking THEN stop(q) ELSE q
  IN processQueue([q1 EXCEPT !.queue = Append(q1.queue, item)])

\* SpeechQueue.speak
speak(q, item) ==
  LET q1 == IF item.interrupt /\ q.speaking THEN stop(q) ELSE q
  IN processQueue([q1 EXCEPT !.queue = enqueue(q1.queue, item)])

\* processQueue, from the callback of say.speak() on: the finally block
playbackEnded(q) ==
  processQueue([q EXCEPT !.speaking = FALSE, !.playing = NoItem,
                         !.stopped = FALSE,
                         !.settled = @ \cup {q.playing.id}])

\* SpeechQueue.clear
clear(q) == stop([q EXCEPT !.queue = <<>>])

\* the ids of the utterance that is playing and of those that wait
Pending(q) ==
  {q.queue[i].id : i \in 1..Len(q.queue)}
    \cup (IF q.speaking THEN {q.playing.id} ELSE {})

SpeechOp(q, op, item) ==
  [q EXCEPT !.last = [op |-> op, item |-> item,
                      before |-> [queue |-> speech.queue,
                                  speaking |-> speech.speaking,
                                  playing |-> speech.playing,
                                  stopped |-> speech.stopped]]]

\* ------------------------------------------------------------------ session
\* the tool calls whose handler has not settled yet, the number of calls
\* made, whether a call touched the session state while an earlier one was
\* in progress, and the last answer: the elementIndex it carries and the
\* element it describes
NoCalls ==
  [inflight |-> {}, made |-> 0, raced |-> FALSE,
   last |-> [id |-> 0, elementIndex |-> 0, element |-> 0]]

InitialState(b, p) ==
  [currentUrl |-> NULL, browser |-> b, page |-> p, currentIndex |-> 0,
   currentElement |-> NULL, navigationType |-> "all", headingLevel |-> Undefined]

\* the workflow before any turn has started
FlowIdle ==
  /\ node = "idle"
  /\ st = create_initial_state
  /\ page = [has_main |-> FALSE, has_article |-> FALSE, has_headlines |-> FALSE]
  /\ cls = NoClassification
  /\ event = NoEvent
  /\ turn = NewTurn
  /\ speech = NewSpeechQueue
  /\ requests = NoCalls

NavInit ==
  /\ \E bp \in {<<NULL, NULL>>, <<NULL, OPEN>>, <<OPEN, OPEN>>} :
       state = InitialState(bp[1], bp[2])
  /\ dom = BlankDom
  /\ pre = state
  /\ resp = NoResp
  /\ FlowIdle

Apply(out) ==
  /\ UNCHANGED <<flowVars, speech, requests>>
  /\ pre' = state
  /\ state' = out.s
  /\ resp' = catch(out.r)

\* the page the driver shows once page.goto settles
Loaded(s, d, outcome) ==
  CASE s.page = NULL \/ outcome = "rejected" -> {d}
    [] outcome = "http_error" -> {ErrorPage}
    [] OTHER -> Doms

NavigateTo ==
  \E url \in URLs, outcome \in GotoOutcomes :
    \E d2 \in Loaded(state, dom, outcome) :
      /\ dom' = d2
      /\ Apply(handleNavigateTo(state, d2, url, outcome))

ReadCurrent == Apply(handleReadCurrent(state, dom)) /\ UNCHANGED dom

NextElement == Apply(handleNextElement(state, dom)) /\ UNCHANGED dom

PreviousElement == Apply(handlePreviousElement(state, dom)) /\ UNCHANGED dom

ListHeadings == Apply(handleListHeadings(state, dom)) /\ UNCHANGED dom

\* a page of no elements holds no text that matches
FindText ==
  \E matches \in 0..dom.all :
    Apply(handleFindText(state, dom, matches)) /\ UNCHANGED dom

NavigateLandmarks == Apply(handleNavigateLandmarks(state, dom)) /\ UNCHANGED dom

\* resp.arg keeps the level asked for
NavigateHeadings ==
  \E level \in {Undefined} \cup Levels :
    LET out == handleNavigateHeadings(state, dom, level)
    IN Apply([out EXCEPT !.r.arg = level]) /\ UNCHANGED dom

\* resp.arg keeps the direction asked for
ChangeHeadingLevel ==
  \E direction \in Directions :
    LET out == handleChangeHeadingLevel(state, dom, direction)
    IN Apply([out EXCEPT !.r.arg = direction]) /\ UNCHANGED dom

Cleanup ==
  /\ UNCHANGED <<flowVars, speech, requests>>
  /\ pre' = state
  /\ state' = cleanup(state)
  /\ resp' = [NoResp EXCEPT !.op = "cleanup"]
  /\ UNCHANGED dom

\* the tools whose arguments the request handler tests, with the message
\* of the test
ArgumentTests ==
  {<<"navigate_to", "URL is required">>,
   <<"find_text", "Search text is required">>,
   <<"navigate_headings", "Heading level must be between 1 and 6">>,
   <<"change_heading_level", "Direction must be up or down">>}

\* a call whose arguments are missing or invalid: no handler is called
InvalidArguments ==
  \E test \in ArgumentTests :
    Apply([s |-> state, r |-> McpError(test[1], "InvalidParams", test[2])])
      /\ UNCHANGED dom

\* a call of a tool the server does not have
UnknownTool ==
  Apply([s |-> state, r |-> McpError("unknown_tool", "MethodNotFound", "Unknown tool")])
    /\ UNCHANGED dom

NavNext ==
  \/ InvalidArguments
  \/ UnknownTool
  \/ NavigateTo
  \/ ReadCurrent
  \/ NextElement
  \/ PreviousElement
  \/ ListHeadings
  \/ FindText
  \/ NavigateLandmarks
  \/ NavigateHeadings
  \/ ChangeHeadingLevel
  \/ Cleanup

SpecNav == NavInit /\ [][NavNext]_vars

\* ------------------------------------------------------------------ turns
\* main(): a new State for each interaction
FlowInit ==
  /\ node = "analyze"
  /\ st = create_initial_state
  /\ page \in Pages
  /\ cls = NoClassification
  /\ event = NoEvent
  /\ turn = NewTurn
  /\ speech = NewSpeechQueue
  /\ requests = NoCalls
  /\ state = InitialState(NULL, NULL)
  /\ dom = BlankDom
  /\ pre = state
  /\ resp = NoResp

Step(n, s, ev, printed, said, rejected) ==
  /\ turn.steps < MaxSteps
  /\ node' = n
  /\ st' = s
  /\ event' = ev
  /\ turn' = [responses |-> turn.responses + printed,
              last |-> IF printed > 0 THEN said ELSE turn.last,
              rejected |-> turn.rejected \/ rejected,
              handlers |-> turn.handlers + ev.ran,
              handlersAfterReject |->
                turn.handlersAfterReject + (IF turn.rejected THEN ev.ran ELSE 0),
              failures |-> Failures(turn.failures, ev),
              invoked |-> turn.invoked \cup ev.called,
              succeeded |-> turn.succeeded
                              \cup (IF ev.failed THEN {} ELSE ev.called),
              steps |-> turn.steps + 1,
              recovering |-> IF n = "error_recovery" THEN s ELSE turn.recovering,
              again |-> turn.again \/ (n = "error_recovery" /\ s = turn.recovering)]
  /\ UNCHANGED <<page, navVars, speech, requests>>

Analyze ==
  /\ node = "analyze"
  /\ \E ok \in BOOLEAN :
       Step("plan", analyze_context(st, page, ok),
            Event("analyze", st, FALSE, 0, ~ok, ~ok), 0, NONE, FALSE)
  /\ UNCHANGED cls

Plan ==
  /\ node = "plan"
  /\ \E c \in Classifications :
       LET out == plan_task_execution(st, c)
       IN /\ cls' = c
          /\ Step("prepare", out.s,
                  [Event("plan", st, out.built, 0, FALSE, FALSE)
                     EXCEPT !.low = determine_action(st, c).error = LowConfidenceMsg],
                  0, NONE,
                  determine_action(st, c).error \in {InvalidActionMsg, LowConfidenceMsg})

Prepare ==
  /\ node = "prepare"
  /\ LET s == prepare_action(st)
     IN Step(route_prepare(s), s, Event("prepare", st, FALSE, 0, FALSE, FALSE),
             0, NONE, FALSE)
  /\ UNCHANGED cls

ExecuteParallel ==
  /\ node = "execute_parallel"
  /\ \E h \in HandlerOutcomes :
       LET out == execute_parallel_tasks(st, h)
       IN Step(route_execute_parallel(out.s), out.s,
               [Event("execute_parallel", st, FALSE, out.ran, out.raised, out.failed)
                  EXCEPT !.called = Called(st)],
               out.printed, "action", FALSE)
  /\ UNCHANGED cls

ErrorRecovery ==
  /\ node = "error_recovery"
  /\ \E recovery \in Recoveries :
       LET out == handle_error_with_llm(st, recovery)
       IN Step(route_error_recovery(out.s), out.s,
               [Event("error_recovery", st, FALSE, 0, FALSE, FALSE)
                  EXCEPT !.strategy = recovery.strategy,
                         !.confidence = recovery.confidence],
               1, out.said, FALSE)
  /\ UNCHANGED cls

\* the reflect node; an exception it raises ends the turn in main(), which
\* prints that an unexpected error occurred
Reflect ==
  /\ node = "reflect"
  /\ \E reflection \in Reflections :
       LET out == reflect_on_execution(st, reflection)
           ev == [Event("reflect", st, FALSE, 0, out.raised, FALSE)
                    EXCEPT !.strategy = out.chose,
                           !.confidence = reflection.confidence,
                           !.sub_tasks = Len(reflection.sub_tasks)]
       IN IF out.raised
          THEN Step(END, out.s, ev, 1, "unexpected_error", FALSE)
          ELSE Step(route_reflect(out.s), out.s, ev, out.printed, out.said, FALSE)
  /\ UNCHANGED cls

\* the next interaction of main()'s loop
StartTurn ==
  /\ node = END
  /\ node' = "analyze"
  /\ st' = create_initial_state
  /\ page' \in Pages
  /\ cls' = NoClassification
  /\ event' = NoEvent
  /\ turn' = NewTurn
  /\ UNCHANGED <<navVars, speech, requests>>

FlowNext ==
  \/ Analyze
  \/ Plan
  \/ Prepare
  \/ ExecuteParallel
  \/ ErrorRecovery
  \/ StartTurn

SpecFlow == FlowInit /\ [][FlowNext]_vars

\* ------------------------------------------------- the plan step by itself
\* plan_task_execution applied to any page context: no type, the
\* placeholder, or a type
PageTypes == {"", "unknown", "news"}

ClassifyInit ==
  /\ node = "plan"
  /\ page \in Pages
  /\ \E type \in PageTypes :
       st = [create_initial_state EXCEPT !.page_context =
               PageContext(type, page.has_main, page.has_article,
                           page.has_headlines, FALSE)]
  /\ cls = NoClassification
  /\ event = NoEvent
  /\ turn = NewTurn
  /\ speech = NewSpeechQueue
  /\ requests = NoCalls
  /\ state = InitialState(NULL, NULL)
  /\ dom = BlankDom
  /\ pre = state
  /\ resp = NoResp

ClassifyNext == Plan

SpecClassify == ClassifyInit /\ [][ClassifyNext]_vars

\* ----------------------------------------------- the workflow from reflect
\* reflect_on_execution applied to the State of a planned turn, for any
\* number of attempts above 1 and a history that is empty or not, and the
\* workflow from there on
MaxAttempts == 3

ReflectInit ==
  /\ node = "reflect"
  /\ page \in Pages
  /\ \E attempts \in 2..MaxAttempts, history \in {<<>>, <<"attempt">>} :
       st = [plan_task_execution(analyze_context(create_initial_state, page, TRUE),
                                 [action |-> "list_headings", confidence |-> 90,
                                  next_action |-> NONE, parsed |-> TRUE]).s
               EXCEPT !.attempts = attempts, !.execution_history = history]
  /\ cls = NoClassification
  /\ event = NoEvent
  /\ turn = NewTurn
  /\ speech = NewSpeechQueue
  /\ requests = NoCalls
  /\ state = InitialState(NULL, NULL)
  /\ dom = BlankDom
  /\ pre = state
  /\ resp = NoResp

ReflectNext == Reflect \/ FlowNext

SpecReflect == ReflectInit /\ [][ReflectNext]_vars

\* ------------------------------------------- planning of any task graph
\* find_parallel_tasks and create_execution_plan applied to any task graph
\* of up to MaxTasks tasks: each task parallel or not, with no dependency
\* or one, on a task of the graph (itself included) or on a task that is
\* not in the graph
MaxTasks == 3
TaskNames == <<"a", "b", "c", "d">>
MISSING == "missing"
HANGS == "plan (no return)"

TaskIds(n) == {TaskNames[i] : i \in 1..n}

\* the task graphs of n tasks
TaskGraphs(n) ==
  {[i \in 1..n |-> create_task(TaskNames[i], "reading", deps[i], par[i])] :
     deps \in [1..n -> {<<>>} \cup {<<x>> : x \in TaskIds(n) \cup {MISSING}}],
     par \in [1..n -> BOOLEAN]}

GraphInit ==
  /\ node = "plan"
  /\ \E n \in 1..MaxTasks :
       \E tg \in TaskGraphs(n) : st = [create_initial_state EXCEPT !.tasks = tg]
  /\ page = [has_main |-> FALSE, has_article |-> FALSE, has_headlines |-> FALSE]
  /\ cls = NoClassification
  /\ event = NoEvent
  /\ turn = NewTurn
  /\ speech = NewSpeechQueue
  /\ requests = NoCalls
  /\ state = InitialState(NULL, NULL)
  /\ dom = BlankDom
  /\ pre = state
  /\ resp = NoResp

\* the plan step from the task graph on; when create_execution_plan does
\* not return, the workflow stays in the plan node
ScheduleTasks ==
  /\ node = "plan"
  /\ LET out == schedule_tasks(st, st.tasks)
     IN Step(IF out.loops THEN HANGS ELSE "prepare", out.s,
             Event("plan", st, ~out.loops, 0, FALSE, FALSE), 0, NONE, FALSE)
  /\ UNCHANGED cls

GraphNext == ScheduleTasks

SpecGraph == GraphInit /\ [][GraphNext]_vars

\* --------------------------------------------------- the speech queue runs
SpeechInit ==
  /\ state = InitialState(NULL, NULL)
  /\ dom = BlankDom
  /\ pre = state
  /\ resp = NoResp
  /\ FlowIdle

Speak ==
  /\ speech.next_id <= MaxUtterances
  /\ \E priority \in Priorities, interrupt \in BOOLEAN :
       LET item == [id |-> speech.next_id, priority |-> priority,
                    interrupt |-> interrupt]
       IN speech' = SpeechOp([speak(speech, item) EXCEPT !.next_id = @ + 1],
                             "speak", item)
  /\ UNCHANGED <<navVars, flowVars, requests>>

\* the callback of say.speak(): the playback is over, or was stopped
PlaybackEnds ==
  /\ speech.speaking
  /\ speech' = SpeechOp(playbackEnded(speech), "ended", speech.playing)
  /\ UNCHANGED <<navVars, flowVars, requests>>

StopSpeech ==
  /\ speech' = SpeechOp([stop(speech) EXCEPT !.cancelled = @ \cup Pending(speech)],
                        "stop", NoItem)
  /\ UNCHANGED <<navVars, flowVars, requests>>

ClearSpeechQueue ==
  /\ speech' = SpeechOp([clear(speech) EXCEPT !.cancelled = @ \cup Pending(speech)],
                        "clear", NoItem)
  /\ UNCHANGED <<navVars, flowVars, requests>>

SpeechNext ==
  \/ Speak
  \/ PlaybackEnds
  \/ StopSpeech
  \/ ClearSpeechQueue

SpecSpeech == SpeechInit /\ [][SpeechNext]_vars

\* ------------------------------------- the speech functions of the utilities
\* The second speech sink: a queue of texts (speakQueue), the flag isSpeaking,
\* the texts whose playback runs, and the calls of speakAsync whose callback
\* has not come yet.  say.stop() ends every playback at once; the callback of
\* a stopped say.speak() comes later, as a step of its own.  Texts are not
\* empty.

\* the most texts a run hands to speak(text)
MaxTexts == 5

\* processQueue, up to the await of speakAsync
say_processQueue(q) ==
  IF q.speakQueue = <<>> \/ q.isSpeaking THEN q
  ELSE [q EXCEPT !.speakQueue = Tail(@), !.isSpeaking = TRUE,
                 !.playing = @ \cup {Head(q.speakQueue)},
                 !.awaiting = @ \cup {Head(q.speakQueue)}]

SayInit ==
  /\ state = InitialState(NULL, NULL)
  /\ dom = BlankDom
  /\ pre = state
  /\ resp = NoResp
  /\ node = "idle"
  /\ st = create_initial_state
  /\ page = [has_main |-> FALSE, has_article |-> FALSE, has_headlines |-> FALSE]
  /\ cls = NoClassification
  /\ event = NoEvent
  /\ turn = NewTurn
  /\ requests = NoCalls
  /\ speech = [speakQueue |-> <<>>, isSpeaking |-> FALSE, playing |-> {},
               awaiting |-> {}, next_id |-> 1]

\* speak(text)
SaySpeak ==
  /\ speech.next_id <= MaxTexts
  /\ LET q == [speech EXCEPT !.speakQueue = Append(@, speech.next_id),
                             !.next_id = @ + 1]
     IN speech' = IF speech.isSpeaking THEN q ELSE say_processQueue(q)
  /\ UNCHANGED <<navVars, flowVars, requests>>

\* the callback of speakAsync, then the finally block of processQueue
SaySpeakEnds ==
  /\ \E text \in speech.awaiting :
       speech' = say_processQueue([speech EXCEPT !.playing = @ \ {text},
                                                 !.awaiting = @ \ {text},
                                                 !.isSpeaking = FALSE])
  /\ UNCHANGED <<navVars, flowVars, requests>>

\* stopSpeaking()
StopSpeaking ==
  /\ speech' = IF speech.isSpeaking
               THEN [speech EXCEPT !.speakQueue = <<>>, !.playing = {},
                                   !.isSpeaking = FALSE]
               ELSE [speech EXCEPT !.speakQueue = <<>>]
  /\ UNCHANGED <<navVars, flowVars, requests>>

SayNext ==
  \/ SaySpeak
  \/ SaySpeakEnds
  \/ StopSpeaking

SpecSay == SayInit /\ [][SayNext]_vars

\* ------------------------------------------ the listing actions by themselves
\* list_headings and list_landmarks applied to any page of the driver; the
\* kind of the result is kept in resp.arg
ActionsInit ==
  /\ state = InitialState(NULL, NULL)
  /\ dom \in Doms
  /\ pre = state
  /\ resp = NoResp
  /\ FlowIdle

ListHeadingsAction ==
  /\ LET out == list_headings(dom)
     IN resp' = [Message("list_headings", out.text)
                   EXCEPT !.arg = out.kind, !.total = Len(dom.headings)]
  /\ UNCHANGED <<state, dom, pre, flowVars, speech, requests>>

ListLandmarksAction ==
  /\ LET out == list_landmarks(dom)
     IN resp' = [Message("list_landmarks", out.text)
                   EXCEPT !.arg = out.kind, !.total = dom.landmarks]
  /\ UNCHANGED <<state, dom, pre, flowVars, speech, requests>>

ActionsNext ==
  \/ ListHeadingsAction
  \/ ListLandmarksAction

SpecActions == ActionsInit /\ [][ActionsNext]_vars

\* ------------------------------------------- tool calls that overlap
\* next_element calls on one session.  A handler runs until its next await
\* and goes on, as a step of its own, when the awaited promise settles.
\* the most calls a run makes
MaxCalls == 3

CallsInit ==
  /\ \E p \in {NULL, OPEN} : state = InitialState(p, p)
  /\ \E n \in 0..(MaxElements + 1) :
       dom = [all |-> n, headings |-> <<>>, landmarks |-> 0]
  /\ pre = state
  /\ resp = NoResp
  /\ FlowIdle

\* the request handler is called: handleNextElement tests state.page and
\* awaits getFocusableElements()
CallArrives ==
  /\ requests.made < MaxCalls
  /\ requests' = [requests EXCEPT
                 !.made = @ + 1,
                 !.raced = @ \/ requests.inflight # {},
                 !.inflight =
                   IF state.page = NULL THEN @
                   ELSE @ \cup {[id |-> requests.made + 1, pc |-> "elements",
                                 element |-> -1, total |-> -1]}]
  /\ resp' = IF state.page = NULL
             THEN Threw("next_element", "No page is currently open") ELSE resp
  /\ UNCHANGED <<state, dom, pre, flowVars, speech>>

\* getFocusableElements() has settled: the cursor is moved, and the handler
\* answers with a message or awaits the description of elements[currentIndex]
ElementsResolve ==
  \E c \in requests.inflight :
    /\ c.pc = "elements"
    /\ LET out == handleNextElement(state, dom)
       IN /\ pre' = state
          /\ state' = out.s
          /\ IF out.r.described >= 0
             THEN /\ requests' = [requests EXCEPT !.inflight =
                                (@ \ {c}) \cup {[c EXCEPT !.pc = "describe",
                                                          !.element = out.r.described,
                                                          !.total = out.r.total]}]
                  /\ UNCHANGED resp
             ELSE /\ requests' = [requests EXCEPT !.inflight = @ \ {c}]
                  /\ resp' = out.r
    /\ UNCHANGED <<dom, flowVars, speech>>

\* the description, speak() and the highlighting have settled: the answer
\* carries elementIndex: this.state.currentIndex
CallReturns ==
  \E c \in requests.inflight :
    /\ c.pc = "describe"
    /\ requests' = [requests EXCEPT !.inflight = @ \ {c},
                              !.last = [id |-> c.id,
                                        elementIndex |-> state.currentIndex,
                                        element |-> c.element]]
    /\ resp' = Described("next_element", state.currentIndex, c.total)
    /\ UNCHANGED <<state, dom, pre, flowVars, speech>>

CallsNext ==
  \/ CallArrives
  \/ ElementsResolve
  \/ CallReturns

SpecCalls == CallsInit /\ [][CallsNext]_vars

\* ================================================================ claims
\* The list handleNextElement, handlePreviousElement and handleReadCurrent
\* index: getFocusableElements() with its default type.
ElementCount == getFocusableElements(dom, "all")

C3_NavigateResets ==
  (resp.op = "navigate_to" /\ ~resp.threw /\ resp.arg = "ok")
  => (/\ state.navigationType = "all"
      /\ state.headingLevel = Undefined
      /\ state.currentIndex = 0
      /\ state.currentElement = NULL)

\* The index the active mode selects: the landmarks, the headings of the
\* chosen level, or every focusable element.
ActiveLen(s, d) ==
  CASE s.navigationType = "landmarks" -> getFocusableElements(d, "landmarks")
    [] s.navigationType = "headings" -> Len(relevantHeadings(d, s.headingLevel))
    [] OTHER -> getFocusableElements(d, "all")

\* C4: after any sequence of operations, while a page is open and the index
\* of the active mode is not empty, 0 <= cursor < length of that index.
C4_CursorInRange ==
  (state.page # NULL /\ ActiveLen(state, dom) > 0)
  => (0 <= state.currentIndex /\ state.currentIndex < ActiveLen(state, dom))

\* C5: a navigate that fails (the request is rejected, or the server answers
\* with an HTTP error) throws and leaves the session state as it was.
C5_FailedNavigateLeavesState ==
  (resp.op = "navigate_to" /\ pre.page # NULL /\ resp.arg # "ok")
  => (resp.threw /\ state = pre)

\* the threshold in force: 0.7 without a page type, 0.6 with one
ActiveThreshold(pc) ==
  IF has_page_type(pc) THEN ThresholdWithPageType ELSE ThresholdWithoutPageType

BelowThreshold ==
  event.node = "plan" /\ cls.parsed /\ cls.confidence < ActiveThreshold(st.page_context)

C7_InvalidActionRejected ==
  [][(node = "plan" /\ cls'.parsed /\ cls'.action \notin DOMAIN VALID_ACTIONS)
     => (/\ st'.error = InvalidActionMsg
         /\ st'.next = "error_recovery"
         /\ ~event'.built
         /\ st'.tasks = st.tasks
         /\ st'.execution_plan = st.execution_plan
         /\ st'.current_action = st.current_action)]_vars

\* the plan step has refused a reply that names no vocabulary action
C7_Witness ==
  /\ event.node = "plan"
  /\ node = "prepare"
  /\ cls.parsed
  /\ cls.action \notin DOMAIN VALID_ACTIONS
  /\ st.error = InvalidActionMsg
  /\ st.tasks = <<>>

\* C8: once a classification of the turn was refused (LowConfidence or
\* InvalidAction), no action handler is executed in that turn.
C8_NoHandlerAfterRejection ==
  turn.rejected => turn.handlersAfterReject = 0

\* C9: a turn that has ended has given the user exactly one response.
C9_ExactlyOneResponse ==
  node = END => turn.responses = 1

\* C10: after an action failed, with attempts <= 1 the same action is tried
\* again without reflection, and with attempts > 1 the reflection node runs.
C10_RetryThenReflect ==
  (event.node = "execute_parallel" /\ event.failed)
  => (IF event.attempts > 1 THEN node = "reflect"
      ELSE node \in {"prepare", "execute_parallel"})

\* C11: attempts is the number of consecutive failed or low-confidence
\* attempts at the current task: every such failure adds one to it, and a
\* success or a change of strategy sets it to 0.
C11_AttemptsCountsFailures ==
  st.attempts = turn.failures

\* C12: when the reflection selects retry, attempts is set to 0 and the
\* workflow goes to the preparation node again.
C12_RetryResetsAttempts ==
  (event.node = "reflect" /\ event.strategy = "retry")
  => (st.attempts = 0 /\ node = "prepare")

\* C13: an alternative is accepted only when its confidence is above 0.7:
\* accepted, it makes the suggested action the current action and sets
\* attempts to 0; with a confidence of 0.7 or less, in the reflection node
\* and in the error-recovery node alike, the current action stays.
C13_AlternativeNeedsConfidence ==
  [][(node \in {"reflect", "error_recovery"} /\ event'.strategy = "alternative")
     => IF event'.confidence > AlternativeThreshold
        THEN st'.current_action = SuggestedAction /\ st'.attempts = 0
        ELSE st'.current_action = st.current_action]_vars

\* C14: when the recovery strategy is clarify, the turn ends there with a
\* question to the user: no node plans or executes after it in that turn.
C14_ClarifyEndsTurn ==
  (event.node \in {"reflect", "error_recovery"} /\ event.strategy = "clarify")
  => (node = END /\ turn.last \in {"clarification", "rephrase"})

\* the reflection decomposed the task in this turn: its first sub-task was
\* appended to the messages as the new input
Decomposed == Len(st.messages) > 1

\* C15: when the reflection selects decompose, the first sub-task becomes
\* the input and planning starts again from it, and the other sub-tasks are
\* then run in their order: when the turn ends none of them is left waiting.
C15_DecomposeRunsSubTasks ==
  /\ (event.node = "reflect" /\ event.strategy = "decompose"
        /\ event.sub_tasks > 0)
       => (node = "analyze" /\ st.messages[Len(st.messages)] # UserInput)
  /\ (node = END /\ Decomposed) => st.sub_tasks = <<>>

\* the ids of the tasks a plan schedules
Scheduled(plan) == UNION {Range(plan[i].ids) : i \in 1..Len(plan)}

\* every dependency of every task can be met: it is a task of the graph,
\* and no task depends on itself, directly or through other tasks
RECURSIVE Ancestors(_, _, _)
Ancestors(tg, ids, n) ==
  IF n = 0 THEN ids
  ELSE Ancestors(tg, ids \cup UNION {Range(tg[i].dependencies) :
                                       i \in {j \in 1..Len(tg) : tg[j].id \in ids}},
                 n - 1)

\* the tasks a depends on, directly or transitively
DependsOn(tg, a) ==
  Ancestors(tg, UNION {Range(tg[i].dependencies) :
                         i \in {j \in 1..Len(tg) : tg[j].id = a}}, Len(tg))

Satisfiable(tg) ==
  \A i \in 1..Len(tg) :
    /\ tg[i].id \notin DependsOn(tg, tg[i].id)
    /\ DependsOn(tg, tg[i].id) \subseteq {tg[j].id : j \in 1..Len(tg)}

\* C16: create_execution_plan terminates for every task graph: it returns a
\* plan of all the tasks when every dependency can be met, and it fails
\* with a PlanningError, instead of looping, when tasks remain of which
\* none is ready.
C16_PlanTerminates ==
  /\ node # HANGS
  /\ event.node = "plan"
       => IF Satisfiable(st.tasks)
          THEN event.built /\ Scheduled(st.execution_plan)
                                = {st.tasks[i].id : i \in 1..Len(st.tasks)}
          ELSE ~event.built /\ st.error = "PlanningError"

\* find_parallel_tasks put the tasks a and b in one group
SameGroup(groups, a, b) ==
  \E k \in 1..Len(groups) : a \in Range(groups[k]) /\ b \in Range(groups[k])

\* C17: find_parallel_tasks puts two tasks in the same group if and only if
\* both are can_parallel and neither depends on the other, directly or
\* transitively.
C17_GroupedIffIndependent ==
  (event.node = "plan" /\ event.built)
  => \A i, j \in 1..Len(st.tasks) :
       i # j =>
         (SameGroup(st.parallel_groups, st.tasks[i].id, st.tasks[j].id)
          <=> (/\ st.tasks[i].can_parallel /\ st.tasks[j].can_parallel
               /\ st.tasks[i].id \notin DependsOn(st.tasks, st.tasks[j].id)
               /\ st.tasks[j].id \notin DependsOn(st.tasks, st.tasks[i].id)))

\* C18: in a parallel step the handler of every task of the group is
\* invoked and its outcome collected, also when a sibling fails, and when
\* at least one of them failed the step is failed and the workflow goes to
\* reflection or recovery.
C18_GroupRunsEveryHandler ==
  (event.node = "execute_parallel" /\ event.group # {})
  => (/\ event.ran = Cardinality(event.group)
      /\ \A id \in event.group : \E p \in st.task_status : p[1] = id
      /\ event.failed => (st.error # NONE /\ node \in {"reflect", "error_recovery"}))

\* C19: for a compound command, classified as navigate with a next_action,
\* the next action is invoked after navigate has succeeded, in the same
\* turn: when the turn ends its handler has been called.
C19_NextActionInvoked ==
  (node = END /\ cls = CompoundCommand /\ "navigate" \in turn.succeeded)
  => VALID_ACTIONS[cls.next_action] \in turn.invoked

\* the utterance x is being played, or waits ahead of every normal-priority
\* utterance of the queue
AheadOfNormal(x) ==
  \/ speech.playing = x
  \/ \E k \in 1..Len(speech.queue) :
       /\ speech.queue[k] = x
       /\ \A i \in 1..Len(speech.queue) :
            speech.queue[i].priority = "normal" => k < i

\* C20: a high-priority utterance enqueued without interrupt is put ahead
\* of every normal-priority utterance that waits, and the utterance that is
\* playing goes on; speak() stops the playback, at once, exactly when
\* interrupt is asked for.
C20_HighPriorityAheadNoPreempt ==
  speech.last.op = "speak"
  => LET x == speech.last.item
         b == speech.last.before
     IN /\ (x.priority = "high" /\ ~x.interrupt) => AheadOfNormal(x)
        /\ b.speaking
             => (/\ speech.playing = b.playing
                 /\ speech.stopped = (b.stopped \/ x.interrupt))

\* while an utterance played and a normal one waited, a high-priority
\* utterance was enqueued without interrupt: it is first in the queue and
\* the playback goes on
C20_Witness ==
  /\ speech.last.op = "speak"
  /\ speech.last.item.priority = "high"
  /\ ~speech.last.item.interrupt
  /\ speech.last.before.speaking
  /\ \E i \in 1..Len(speech.last.before.queue) :
       speech.last.before.queue[i].priority = "normal"
  /\ Head(speech.queue) = speech.last.item
  /\ speech.playing = speech.last.before.playing
  /\ ~speech.stopped

\* the utterance x is being played, or waits behind every utterance of the
\* queue whose priority is one of ps
BehindAll(x, ps) ==
  \/ speech.playing = x
  \/ \E k \in 1..Len(speech.queue) :
       /\ speech.queue[k] = x
       /\ \A i \in 1..Len(speech.queue) :
            (i # k /\ speech.queue[i].priority \in ps) => i < k

\* C21: a normal-priority utterance is put behind every high-priority
\* utterance that waits and behind every normal-priority utterance enqueued
\* before it, so that the normal-priority utterances of the queue stand in
\* the order in which they were enqueued.
C21_NormalAppended ==
  /\ (speech.last.op = "speak" /\ speech.last.item.priority = "normal")
       => BehindAll(speech.last.item, {"high", "normal"})
  /\ \A i, j \in 1..Len(speech.queue) :
       (i < j /\ speech.queue[i].priority = "normal"
          /\ speech.queue[j].priority = "normal")
       => speech.queue[i].id < speech.queue[j].id

\* C22: a low-priority utterance is put at the very end of the queue, and
\* whatever calls were made no low-priority utterance of the queue stands
\* ahead of a high- or normal-priority one.
C22_LowAtEnd ==
  /\ (speech.last.op = "speak" /\ speech.last.item.priority = "low")
       => \/ speech.playing = speech.last.item
          \/ /\ speech.queue # <<>>
             /\ speech.queue[Len(speech.queue)] = speech.last.item
  /\ \A i, j \in 1..Len(speech.queue) :
       (i < j /\ speech.queue[i].priority = "low")
       => speech.queue[j].priority = "low"

\* a low-priority utterance was enqueued while a high- and a normal-priority
\* one waited, and it is the last of the queue
C22_Witness ==
  /\ speech.last.op = "speak"
  /\ speech.last.item.priority = "low"
  /\ \E i, j \in 1..Len(speech.last.before.queue) :
       /\ speech.last.before.queue[i].priority = "high"
       /\ speech.last.before.queue[j].priority = "normal"
  /\ Len(speech.queue) = Len(speech.last.before.queue) + 1
  /\ speech.queue[Len(speech.queue)] = speech.last.item

\* C23: a stop signal stops the utterance that is playing and empties the
\* queue: no utterance that waited when the signal came is spoken after it.
C23_StopClearsQueue ==
  /\ speech.last.op = "stop"
       => (/\ speech.queue = <<>>
           /\ speech.last.before.speaking => speech.stopped)
  /\ (speech.speaking /\ speech.playing.id \in speech.cancelled) => speech.stopped

\* C24: the calls on one session are processed one at a time: no call
\* reads or writes the session state while an earlier call is in progress,
\* so that the elementIndex of an answer is the index of the element the
\* answer describes.
C24_OneCallAtATime ==
  /\ ~requests.raced
  /\ requests.last.elementIndex = requests.last.element

\* C25: list_headings, list_landmarks and find_text on a page without a
\* match answer with a message for the user: the result is not an error,
\* and nothing is read from the empty list.
C25_EmptyListIsMessage ==
  (resp.op \in {"list_headings", "list_landmarks", "find_text"} /\ resp.total <= 0)
  => (/\ ~resp.threw
      /\ resp.arg # "error"
      /\ resp.msg # ""
      /\ resp.described = -1)

\* C26: navigate_landmarks, and navigate_headings with or without a level,
\* when at least one element matches, switch the mode to landmarks or to
\* headings, put the cursor at 0 and answer with the description of the
\* first element of the new index.
C26_NavigateSwitchesMode ==
  /\ (resp.op = "navigate_landmarks" /\ pre.page # NULL
        /\ getFocusableElements(dom, "landmarks") > 0)
       => (/\ ~resp.threw
           /\ state.navigationType = "landmarks"
           /\ state.currentIndex = 0
           /\ resp.described = 0
           /\ resp.total = getFocusableElements(dom, "landmarks"))
  /\ (resp.op = "navigate_headings" /\ resp.code # "InvalidParams"
        /\ pre.page # NULL /\ Len(relevantHeadings(dom, resp.arg)) > 0)
       => (/\ ~resp.threw
           /\ state.navigationType = "headings"
           /\ state.currentIndex = 0
           /\ resp.described = 0
           /\ resp.total = Len(relevantHeadings(dom, resp.arg)))

\* with the cursor on the second element of another mode, navigate_headings
\* for level 3 found a heading of that level
C26_Witness ==
  /\ resp.op = "navigate_headings"
  /\ ~resp.threw
  /\ resp.arg = 3
  /\ pre.navigationType # "headings"
  /\ pre.currentIndex > 0
  /\ state.navigationType = "headings"
  /\ state.currentIndex = 0
  /\ resp.described = 0
  /\ resp.total > 0

\* the heading levels of the page d that lie in the direction dir of level:
\* up is towards h1
LevelsBeyond(d, level, dir) ==
  {l \in Range(d.headings) : IF dir = "up" THEN l < level ELSE l > level}

\* C27: in headings mode, change_heading_level moves headingLevel to the
\* nearest level of the page above or below the current one; when the page
\* has no level in that direction it answers with a message, not an error,
\* and leaves the session state as it was.
C27_NearestExistingLevel ==
  (resp.op = "change_heading_level" /\ resp.code # "InvalidParams"
     /\ pre.page # NULL
     /\ pre.navigationType = "headings" /\ pre.headingLevel # Undefined)
  => LET beyond == LevelsBeyond(dom, pre.headingLevel, resp.arg)
     IN IF beyond = {}
        THEN ~resp.threw /\ resp.msg # "" /\ state = pre
        ELSE /\ ~resp.threw
             /\ state.headingLevel \in beyond
             /\ \A l \in beyond :
                  IF resp.arg = "up" THEN l <= state.headingLevel
                  ELSE l >= state.headingLevel

\* C28: an operation whose precondition does not hold fails with the error
\* of that precondition and leaves the session state as it was:
\* read_current, next_element and previous_element without a page fail with
\* "No page is currently open", and change_heading_level outside headings
\* mode fails, once, with "Not in heading navigation mode".
C28_PreconditionFailureLeavesState ==
  /\ (resp.op \in {"read_current", "next_element", "previous_element"}
        /\ pre.page = NULL)
       => (/\ resp.threw
           /\ resp.msg = "No page is currently open"
           /\ state = pre)
  /\ (resp.op = "change_heading_level" /\ resp.code # "InvalidParams"
        /\ pre.navigationType # "headings")
       => (/\ resp.threw
           /\ resp.msg = "Not in heading navigation mode"
           /\ state = pre)

\* change_heading_level was refused on an open page in landmarks mode
C28_Witness ==
  /\ resp.op = "change_heading_level"
  /\ pre.page # NULL
  /\ pre.navigationType = "landmarks"
  /\ resp.threw
  /\ resp.msg = "Not in heading navigation mode"
  /\ state = pre

\* C29: after cleanup, whatever the session state was before, the browser
\* and the page are closed and every field of the session state has its
\* initial value: no URL, no browser, no page, mode "all", no heading
\* level, cursor 0, no element remembered.
C29_CleanupResets ==
  resp.op = "cleanup" => state = InitialState(NULL, NULL)

\* C30: every tool call that fails ends in an McpError that carries an
\* error code and a message: InvalidParams for missing or invalid
\* arguments, MethodNotFound for an unknown tool, and InternalError for
\* whatever a handler throws; no other exception leaves the request handler.
C30_FailuresAreMcpErrors ==
  /\ resp.threw
       => (/\ resp.code \in {"InvalidParams", "MethodNotFound", "InternalError"}
           /\ resp.msg # "")
  /\ resp.op = "unknown_tool" => (resp.threw /\ resp.code = "MethodNotFound")
  /\ (\E test \in ArgumentTests : resp.msg = test[2])
       => (resp.threw /\ resp.code = "InvalidParams")
  /\ (resp.threw /\ resp.code = "InternalError") => resp.op # "unknown_tool"
  /\ resp.code # "" => resp.threw

\* page.goto rejected inside handleNavigateTo, and the call ended in an
\* McpError with the code InternalError and the handler's message
C30_Witness ==
  /\ resp.op = "navigate_to"
  /\ resp.threw
  /\ resp.arg = "rejected"
  /\ pre.page # NULL
  /\ resp.code = "InternalError"
  /\ resp.msg = "Failed to load page"

\* C31: a turn that ends with a clarifying question does not reset
\* attempts: the attempts counted before the question are still counted
\* when the next input arrives.
C31_ClarifyKeepsAttempts ==
  [][(node = END /\ event.strategy = "clarify") => st'.attempts = st.attempts]_vars

\* C32: in landmarks or headings mode, next_element, previous_element and
\* read_current move and read within the index of that mode (the landmarks,
\* or the headings of the chosen level): the element they describe is an
\* element of that index, and the total they report is its length.
C32_MovesWithinActiveIndex ==
  (resp.op \in {"read_current", "next_element", "previous_element"}
     /\ pre.page # NULL /\ pre.navigationType \in {"landmarks", "headings"}
     /\ ~resp.threw /\ resp.described >= 0)
  => (/\ resp.total = ActiveLen(pre, dom)
      /\ resp.described < ActiveLen(pre, dom))

\* C33: previous_element at a cursor k >= 1 (element k - 1 exists) moves the
\* cursor to k - 1 and answers with the description of element k - 1, also
\* when k - 1 = 0; "At start of page" is answered only when the cursor was
\* already at 0.
C33_PreviousDescribesElement ==
  (resp.op = "previous_element" /\ pre.page # NULL
     /\ pre.currentIndex >= 1 /\ pre.currentIndex - 1 < ElementCount)
  => (/\ state.currentIndex = pre.currentIndex - 1
      /\ resp.described = pre.currentIndex - 1
      /\ resp.msg # "At start of page")

\* C34: at most one utterance is being spoken at any time, for every
\* interleaving of speak and stop calls with the playback callbacks.
C34_OneUtteranceAtATime == Cardinality(speech.playing) <= 1

\* C35: every promise returned by speak() settles in the end, also for an
\* utterance that clear() removed or stop() cut short; so at every moment an
\* utterance whose promise has not settled still waits in the queue or is
\* the one whose playback callback is awaited.
C35_NoPromiseDropped ==
  \A id \in 1..(speech.next_id - 1) :
    id \in speech.settled \/ id \in Pending(speech)

\* the number of places a task has in a plan, the places inside parallel
\* groups counted
Occurrences(plan, id) ==
  Cardinality({p \in UNION {{<<i, j>> : j \in 1..Len(plan[i].ids)} : i \in 1..Len(plan)} :
                 plan[p[1]].ids[p[2]] = id})

\* C36: in every plan create_execution_plan returns, each task of the task
\* graph occurs exactly once, counting the occurrences inside parallel
\* groups: none is left out and none is scheduled twice.
C36_EachTaskOnce ==
  (event.node = "plan" /\ event.built)
  => \A i \in 1..Len(st.tasks) :
       Occurrences(st.execution_plan, st.tasks[i].id) = 1

\* the steps of a plan that hold a task
StepsOf(plan, id) == {p \in 1..Len(plan) : id \in Range(plan[p].ids)}

\* C37: in every plan create_execution_plan returns, each task stands in a
\* strictly later step than every one of its dependencies; so no parallel
\* group holds a task together with one of its dependencies.
C37_AfterDependencies ==
  (event.node = "plan" /\ event.built)
  => \A i \in 1..Len(st.tasks) :
       \A d \in Range(st.tasks[i].dependencies) :
         /\ StepsOf(st.execution_plan, d) # {}
         /\ \A p \in StepsOf(st.execution_plan, st.tasks[i].id) :
              \A q \in StepsOf(st.execution_plan, d) : q < p

\* a plan was returned that holds a parallel group and, in a later step, a
\* task that depends on a task of the group
C37_Witness ==
  /\ event.node = "plan" /\ event.built
  /\ \E i \in 1..Len(st.tasks) :
       \E d \in Range(st.tasks[i].dependencies) :
         \E q \in StepsOf(st.execution_plan, d) : st.execution_plan[q].par

\* C38: every turn terminates, whatever the classifier, the handlers, the
\* reflection and the error recovery answer: retry, alternative and
\* decompose cycles cannot repeat for ever within one turn.  So a turn never
\* comes back to error recovery with the very State it had there before,
\* from where the same answers would lead it round again without end.
C38_TurnTerminates == ~turn.again

\* the last call was navigate_landmarks or navigate_headings on an open page
\* that has no element of the kind asked for
NoneFound ==
  /\ pre.page # NULL
  /\ \/ resp.op = "navigate_landmarks" /\ getFocusableElements(dom, "landmarks") = 0
     \/ /\ resp.op = "navigate_headings" /\ resp.code # "InvalidParams"
        /\ Len(relevantHeadings(dom, resp.arg)) = 0

\* C39: when navigate_landmarks or navigate_headings finds no matching
\* element (no landmark, no heading, no heading of the level asked for) it
\* answers with the "none found" message and leaves the mode, the cursor
\* and the heading level as they were before the call.
C39_NoneFoundLeavesState ==
  NoneFound
  => (/\ ~resp.threw
      /\ resp.msg \in {"No landmarks found on page", "No headings found on page",
                       "No level headings found"}
      /\ state.navigationType = pre.navigationType
      /\ state.currentIndex = pre.currentIndex
      /\ state.headingLevel = pre.headingLevel)

\* C40: for every task of a plan built by plan_task_execution, the main
\* task of the action and every task added for the page, the lookup of the
\* handler by the type of the task succeeds.
C40_HandlerResolves ==
  (event.node = "plan" /\ event.built)
  => \A id \in Scheduled(st.execution_plan) : HandlerFound(TaskOf(st, id).type)

====
